---- MODULE Spec2Model ----
(***************************************************************************)
(* Model of src/src/lib.rs: CompressedFile (create_file, new,              *)
(* open_for_read, open_for_write, append_to_file) and the free function    *)
(* write_string_file_gz, over one filesystem path.                         *)
(*                                                                         *)
(* The gzip codec is an external library.  It is modelled by a codec with  *)
(* the same shape: a stream is a header, a compressed body (run-length     *)
(* coded, so the stream's length depends on the content and not only on    *)
(* its length), an end-of-stream marker and a footer holding a checksum    *)
(* and the content's length.  The decoder reads ONE member from the        *)
(* descriptor's cursor, fails on an empty or malformed input, and ignores  *)
(* whatever follows the footer.                                            *)
(***************************************************************************)
EXTENDS Integers, Sequences, FiniteSets, TLC

\* ---- bounds ------------------------------------------------------------
MaxLen == 2          \* longest decompressed content
MaxByte == 1         \* content bytes are 0..MaxByte (0 is the zero byte)

Byte == 0..MaxByte
CrcMod == MaxByte + 2

Contents == UNION {[1..n -> Byte] : n \in 0..MaxLen}

Max(a, b) == IF a >= b THEN a ELSE b

\* ---- the codec ---------------------------------------------------------
Hdr == [k |-> "hdr", n |-> 0, b |-> 0]
Eos == [k |-> "eos", n |-> 0, b |-> 0]
Run(n, b) == [k |-> "run", n |-> n, b |-> b]

RECURSIVE Sum(_)
Sum(B) == IF B = <<>> THEN 0 ELSE Head(B) + Sum(Tail(B))

Ftr(B) == [k |-> "ftr", n |-> Len(B), b |-> Sum(B) % CrcMod]

\* run-length coding of B, left to right
RECURSIVE Deflate(_)
Deflate(B) ==
    IF B = <<>> THEN <<>>
    ELSE LET rest == Deflate(Tail(B))
         IN IF rest # <<>> /\ Head(rest).b = Head(B)
            THEN <<Run(Head(rest).n + 1, Head(B))>> \o Tail(rest)
            ELSE <<Run(1, Head(B))>> \o rest

\* GzEncoder::new(..) + write_all(B) + finish(): one complete member
GzEncode(B) == <<Hdr>> \o Deflate(B) \o <<Eos>> \o <<Ftr(B)>>

RECURSIVE Repeat(_, _)
Repeat(b, n) == IF n = 0 THEN <<>> ELSE <<b>> \o Repeat(b, n - 1)

DecErr == [ok |-> FALSE, data |-> <<>>, used |-> 0]

\* the body: run tokens up to the end-of-stream marker, then the footer
RECURSIVE Inflate(_, _, _)
Inflate(F, i, acc) ==
    IF i > Len(F) THEN DecErr
    ELSE IF F[i].k = "run" THEN Inflate(F, i + 1, acc \o Repeat(F[i].b, F[i].n))
    ELSE IF F[i].k # "eos" THEN DecErr
    ELSE IF i + 1 > Len(F) THEN DecErr
    ELSE IF F[i + 1] # Ftr(acc) THEN DecErr
    ELSE [ok |-> TRUE, data |-> acc, used |-> i + 1]

\* GzDecoder::new(fd) + read_to_end(): decodes one member starting at the
\* descriptor's cursor; `used` is the offset just past the member's footer
GzDecode(F, cursor) ==
    IF cursor >= Len(F) THEN DecErr
    ELSE IF F[cursor + 1] # Hdr THEN DecErr
    ELSE Inflate(F, cursor + 2, <<>>)

\* ---- the file ----------------------------------------------------------
\* a byte of a hole the filesystem fills with zeros
Hole == [k |-> "raw", n |-> 0, b |-> 0]

\* a write of `data` at offset `off` through a descriptor opened without
\* truncation: the bytes of `old` past the end of the write stay on disk,
\* and a write past the end of the file leaves a hole
WriteAt(old, off, data) ==
    [i \in 1..off |-> IF i <= Len(old) THEN old[i] ELSE Hole]
      \o data \o SubSeq(old, off + Len(data) + 1, Len(old))

Valid(by) == GzDecode(by, 0).ok
Content(by) == GzDecode(by, 0).data


\* ---- the operations, as functions of the state they read ----------------

\* File::create(path): creates the file or truncates it to zero bytes
CreateFileResult(ex, by) ==
    [res |-> "ok", exists |-> TRUE, bytes |-> <<>>]

\* File::open(path): fails when no file exists at the path
OpenForReadResult(ex) == IF ex THEN "ok" ELSE "err"

\* open_for_write without .create(true)
OpenForWriteNoCreate(ex, by) ==
    [res |-> IF ex THEN "ok" ELSE "err", exists |-> ex, bytes |-> by]

\* OpenOptions::new().write(true).create(true).open(path): creates the file
\* when absent, keeps its bytes when present, cursor at offset 0
OpenForWriteResult(ex, by) ==
    [res |-> "ok", exists |-> TRUE, bytes |-> IF ex THEN by ELSE <<>>]

\* the cursor of the writer's descriptor: the encoder writes the header to
\* the file on the first write and buffers the compressed body
WriterPos(wbuf) == IF wbuf = <<>> THEN 0 ELSE Len(<<Hdr>>)

\* write_all(buf) on the writer, `wbuf` written so far
WriteAllResult(by, wbuf) ==
    IF wbuf = <<>> THEN WriteAt(by, 0, <<Hdr>>) ELSE by

\* a writer dropped without the encoder's finish: no end marker, no footer
FinishWithoutFooter(by, wbuf) ==
    WriteAt(by, WriterPos(wbuf),
            SubSeq(<<Hdr>> \o Deflate(wbuf), WriterPos(wbuf) + 1,
                   Len(Deflate(wbuf)) + 1))

\* the writer finalized (dropped): the header if no write emitted it, then
\* the body and the footer, at the descriptor's cursor
FinishResult(by, wbuf) ==
    WriteAt(by, WriterPos(wbuf),
            SubSeq(GzEncode(wbuf), WriterPos(wbuf) + 1, Len(GzEncode(wbuf))))

\* read_to_end on the reader open_for_read returned
ReadToEndResult(by) ==
    LET d == GzDecode(by, 0)
    IN [res |-> IF d.ok THEN "ok" ELSE "err", out |-> d.data]

\* append_to_file that rewrites the file with the new text alone
AppendDropsExisting(ex, by, text) ==
    LET d == GzDecode(by, 0)
    IN IF ex /\ ~d.ok
       THEN [res |-> "err", exists |-> ex, bytes |-> by]
       ELSE [res |-> "ok", exists |-> TRUE, bytes |-> GzEncode(text)]

\* append_to_file that calls File::create before it reads
AppendCreatesFirst(ex, by, text) ==
    LET d == GzDecode(by, 0)
    IN IF ex /\ ~d.ok
       THEN [res |-> "err", exists |-> TRUE, bytes |-> <<>>]
       ELSE LET existing_content == IF ex THEN d.data ELSE <<>>
            IN [res |-> "ok", exists |-> TRUE,
                bytes |-> GzEncode(existing_content \o text)]

\* append_to_file(text)
AppendResult(ex, by, text) ==
    LET d == GzDecode(by, 0)
    IN IF ex /\ ~d.ok
       THEN [res |-> "err", exists |-> ex, bytes |-> by]
       ELSE LET existing_content == IF ex THEN d.data ELSE <<>>
                combined_content == existing_content \o text
            IN [res |-> "ok", exists |-> TRUE,
                bytes |-> GzEncode(combined_content)]

\* a patch that always resizes the content to pos + len
PatchTruncates(content, hash, pos) ==
    LET end == pos + Len(hash)
    IN [i \in 1..end |->
          IF i > pos THEN hash[i - pos]
          ELSE IF i <= Len(content) THEN content[i]
          ELSE 0]

\* resize(pos + len, 0) when the range ends past the content, then
\* copy_from_slice over [pos, pos + len)
PatchContent(content, hash, pos) ==
    LET end == pos + Len(hash)
        n == Max(Len(content), end)
    IN [i \in 1..n |->
          IF i > pos /\ i <= end THEN hash[i - pos]
          ELSE IF i <= Len(content) THEN content[i]
          ELSE 0]

\* write_string_file_gz(hash, file, pos) on a descriptor whose cursor is at
\* `cursor`: the decoder reads from the cursor (the clone shares it), a
\* failed read leaves the cursor where the buffered read stopped, a
\* successful call leaves it past the stream it wrote
PatchResult(by, cursor, hash, pos) ==
    LET d == GzDecode(by, cursor)
    IN IF Len(by) > 0 /\ ~d.ok
       THEN [res |-> "err", bytes |-> by, cursor |-> Max(cursor, Len(by))]
       ELSE LET existing_content == IF Len(by) > 0 THEN d.data ELSE <<>>
                stream == GzEncode(PatchContent(existing_content, hash, pos))
            IN [res |-> "ok", bytes |-> WriteAt(by, 0, stream),
                cursor |-> Len(stream)]

\* ---- state --------------------------------------------------------------
VARIABLES
    exists,   \* a file exists at the path
    bytes,    \* its on-disk bytes
    rOpen,    \* a reader returned by open_for_read is live
    wOpen,    \* a writer returned by open_for_write is live
    wBuf,     \* the bytes written through it so far
    wMixed,   \* another operation rewrote the file while the writer was live
    fdOpen,   \* the caller holds a read+write descriptor on the file
    fdPos,    \* that descriptor's cursor
    origin,   \* the operation that last set the on-disk bytes
    last      \* the last operation, its inputs, its result, the state before

vars == <<exists, bytes, rOpen, wOpen, wBuf, wMixed, fdOpen, fdPos, origin, last>>

Origin(op, arg, over, mixed) ==
    [op |-> op, arg |-> arg, over |-> over, mixed |-> mixed]

NoOrigin == Origin("none", <<>>, FALSE, FALSE)

\* the record of an operation that can rewrite the file keeps the state
\* it started from
Done(op, res, arg, pos, out) ==
    [op |-> op, res |-> res, arg |-> arg, pos |-> pos, out |-> out,
     preExists |-> exists, preBytes |-> bytes, preFdPos |-> fdPos,
     preOrigin |-> origin.op]

\* the record of an operation that leaves the file as it is
Seen(op, res, out) ==
    [op |-> op, res |-> res, arg |-> <<>>, pos |-> 0, out |-> out,
     preExists |-> exists, preBytes |-> <<>>, preFdPos |-> 0,
     preOrigin |-> "none"]

Init ==
    /\ exists = FALSE
    /\ bytes = <<>>
    /\ rOpen = FALSE
    /\ wOpen = FALSE
    /\ wBuf = <<>>
    /\ wMixed = FALSE
    /\ fdOpen = FALSE
    /\ fdPos = 0
    /\ origin = NoOrigin
    /\ last = [op |-> "init", res |-> "ok", arg |-> <<>>, pos |-> 0,
               out |-> <<>>, preExists |-> FALSE, preBytes |-> <<>>,
               preFdPos |-> 0, preOrigin |-> "none"]

\* ---- actions ------------------------------------------------------------
CreateFile ==
    LET r == CreateFileResult(exists, bytes)
    IN /\ exists' = r.exists
       /\ bytes' = r.bytes
       /\ origin' = Origin("create_file", <<>>, exists /\ Len(bytes) > 0, FALSE)
       /\ wMixed' = wOpen
       /\ last' = Done("create_file", r.res, <<>>, 0, <<>>)
       /\ UNCHANGED <<rOpen, wOpen, wBuf, fdOpen, fdPos>>

New ==
    /\ last' = Seen("new", "ok", <<>>)
    /\ UNCHANGED <<exists, bytes, rOpen, wOpen, wBuf, wMixed, fdOpen, fdPos, origin>>

OpenForRead ==
    LET r == OpenForReadResult(exists)
    IN /\ rOpen' = (rOpen \/ r = "ok")
       /\ last' = Seen("open_for_read", r, <<>>)
       /\ UNCHANGED <<exists, bytes, wOpen, wBuf, wMixed, fdOpen, fdPos, origin>>

ReadToEnd ==
    /\ rOpen
    /\ LET r == ReadToEndResult(bytes)
       IN last' = Seen("read_to_end", r.res, r.out)
    /\ rOpen' = FALSE
    /\ UNCHANGED <<exists, bytes, wOpen, wBuf, wMixed, fdOpen, fdPos, origin>>

OpenForWrite ==
    /\ ~wOpen
    /\ LET r == OpenForWriteResult(exists, bytes)
       IN /\ exists' = r.exists
          /\ bytes' = r.bytes
          /\ wOpen' = (r.res = "ok")
          /\ last' = Done("open_for_write", r.res, <<>>, 0, <<>>)
    /\ wBuf' = <<>>
    /\ wMixed' = FALSE
    /\ UNCHANGED <<rOpen, fdOpen, fdPos, origin>>

WriteAll ==
    /\ wOpen
    /\ \E buf \in Contents :
         /\ Len(buf) > 0
         /\ Len(wBuf) + Len(buf) <= MaxLen
         /\ wBuf' = wBuf \o buf
         /\ last' = Seen("write_all", "ok", <<>>)
    /\ bytes' = WriteAllResult(bytes, wBuf)
    /\ UNCHANGED <<exists, rOpen, wOpen, wMixed, fdOpen, fdPos, origin>>

Finish ==
    /\ wOpen
    /\ bytes' = FinishResult(bytes, wBuf)
    /\ wOpen' = FALSE
    /\ wBuf' = <<>>
    /\ wMixed' = FALSE
    /\ origin' = Origin("finish", wBuf, FALSE, wMixed)
    /\ last' = Done("finish", "ok", wBuf, 0, <<>>)
    /\ UNCHANGED <<exists, rOpen, fdOpen, fdPos>>

AppendToFile ==
    \E text \in Contents :
      LET r == AppendResult(exists, bytes, text)
      IN /\ GzDecode(bytes, 0).ok => Len(GzDecode(bytes, 0).data) + Len(text) <= MaxLen
         /\ exists' = r.exists
         /\ bytes' = r.bytes
         /\ origin' = IF r.res = "ok"
                      THEN Origin("append_to_file", <<>>, FALSE, FALSE)
                      ELSE origin
         /\ wMixed' = (wMixed \/ (wOpen /\ r.res = "ok"))
         /\ last' = Done("append_to_file", r.res, text, 0, <<>>)
         /\ UNCHANGED <<rOpen, wOpen, wBuf, fdOpen, fdPos>>

OpenFd ==
    /\ exists
    /\ fdOpen' = TRUE
    /\ fdPos' = 0
    /\ last' = Seen("open_fd", "ok", <<>>)
    /\ UNCHANGED <<exists, bytes, rOpen, wOpen, wBuf, wMixed, origin>>

WriteStringFileGz ==
    /\ fdOpen
    /\ \E hash \in Contents, pos \in 0..MaxLen :
         LET r == PatchResult(bytes, fdPos, hash, pos)
         IN /\ pos + Len(hash) <= MaxLen
            /\ bytes' = r.bytes
            /\ fdPos' = r.cursor
            /\ origin' = IF r.res = "ok"
                         THEN Origin("write_string_file_gz", <<>>, FALSE, FALSE)
                         ELSE origin
            /\ wMixed' = (wMixed \/ (wOpen /\ r.res = "ok"))
            /\ last' = Done("write_string_file_gz", r.res, hash, pos, <<>>)
    /\ UNCHANGED <<exists, rOpen, wOpen, wBuf, fdOpen>>

Next ==
    \/ CreateFile
    \/ New
    \/ OpenForRead
    \/ ReadToEnd
    \/ OpenForWrite
    \/ WriteAll
    \/ Finish
    \/ AppendToFile
    \/ OpenFd
    \/ WriteStringFileGz

Spec == Init /\ [][Next]_vars

\* the handle's own operations, without write_string_file_gz
NextFile ==
    \/ CreateFile
    \/ New
    \/ OpenForRead
    \/ ReadToEnd
    \/ OpenForWrite
    \/ WriteAll
    \/ Finish
    \/ AppendToFile

SpecFile == Init /\ [][NextFile]_vars

\* write_string_file_gz on a caller's descriptor, over files that
\* create_file and append_to_file prepare
NextPatch ==
    \/ CreateFile
    \/ AppendToFile
    \/ OpenFd
    \/ WriteStringFileGz

SpecPatch == Init /\ [][NextPatch]_vars


\* ---- properties ---------------------------------------------------------

\* C1: a reader that reads to the end after a writer wrote B and was
\* finalized returns exactly B, whatever the file held when the writer
\* was opened
RoundTrip ==
    (last.op = "read_to_end" /\ origin.op = "finish" /\ ~origin.mixed)
        => (last.res = "ok" /\ last.out = origin.arg)

\* B was written over a longer stream, whose tail is still on disk
RoundTripOverLonger ==
    /\ last.op = "read_to_end"
    /\ origin.op = "finish"
    /\ ~origin.mixed
    /\ origin.arg # <<>>
    /\ last.out = origin.arg
    /\ Len(bytes) > Len(GzEncode(origin.arg))

PreContent == IF last.preExists THEN Content(last.preBytes) ELSE <<>>

\* C2: a successful append_to_file(B) on a file that decompressed to A
\* (A empty when absent) leaves a file that decompresses to A followed by B
AppendConcatenates ==
    (last.op = "append_to_file" /\ last.res = "ok")
        => /\ exists
           /\ Valid(bytes)
           /\ Content(bytes) = PreContent \o last.arg

AppendedToContent ==
    /\ last.op = "append_to_file"
    /\ last.res = "ok"
    /\ last.preExists
    /\ Content(last.preBytes) # <<>>
    /\ last.arg # <<>>
    /\ Content(bytes) = Content(last.preBytes) \o last.arg

\* C3: after create_file on a path holding non-empty content, open_for_read
\* and a read to the end succeed and return zero bytes
CreateThenReadEmpty ==
    (last.op = "read_to_end" /\ origin.op = "create_file" /\ origin.over)
        => (last.res = "ok" /\ last.out = <<>>)

\* the decompressed content write_string_file_gz starts from: empty for a
\* zero-length file
PatchPre == IF last.preBytes = <<>> THEN <<>> ELSE Content(last.preBytes)

PatchPreOk == last.preBytes = <<>> \/ Valid(last.preBytes)

\* C4: write_string_file_gz(V, file, P) on content C of length L < P
\* succeeds and leaves C, then zeros up to P, then V
PatchExtendsShort ==
    (/\ last.op = "write_string_file_gz"
     /\ PatchPreOk
     /\ Len(PatchPre) < last.pos)
        => /\ last.res = "ok"
           /\ Valid(bytes)
           /\ Content(bytes) =
                PatchPre \o Repeat(0, last.pos - Len(PatchPre)) \o last.arg

\* C5: a successful write_string_file_gz(V, file, P) with P + len(V) within
\* the content keeps the length, sets [P, P + len(V)) to V and changes no
\* other byte
PatchInsideFrame ==
    (/\ last.op = "write_string_file_gz"
     /\ last.res = "ok"
     /\ PatchPreOk
     /\ last.pos + Len(last.arg) <= Len(PatchPre))
        => /\ Valid(bytes)
           /\ Len(Content(bytes)) = Len(PatchPre)
           /\ \A i \in 1..Len(PatchPre) :
                Content(bytes)[i] =
                  IF i > last.pos /\ i <= last.pos + Len(last.arg)
                  THEN last.arg[i - last.pos]
                  ELSE PatchPre[i]

PatchedInside ==
    /\ last.op = "write_string_file_gz"
    /\ last.res = "ok"
    /\ Valid(last.preBytes)
    /\ Len(last.arg) = 1
    /\ last.pos = 0
    /\ Len(PatchPre) = 2
    /\ last.arg[1] # PatchPre[1]
    /\ Content(bytes) = <<last.arg[1], PatchPre[2]>>

\* C6: with no writer live and the last operation successful, the bytes of
\* an existing file are exactly one complete member, nothing after it
OnDiskSingleMember ==
    (exists /\ ~wOpen /\ last.res = "ok")
        => (Valid(bytes) /\ GzDecode(bytes, 0).used = Len(bytes))

\* C7: where no file exists, open_for_read fails, and open_for_write
\* succeeds and the file exists afterwards
OpenOnAbsentPath ==
    /\ (last.op = "open_for_read" /\ ~last.preExists) => last.res = "err"
    /\ (last.op = "open_for_write" /\ ~last.preExists)
          => (last.res = "ok" /\ exists)

OpenedAbsentForWrite ==
    /\ last.op = "open_for_write"
    /\ ~last.preExists
    /\ last.res = "ok"
    /\ exists
    /\ wOpen

\* C8: append_to_file(B) on the file create_file left succeeds and leaves a
\* file that decompresses to B
CreateThenAppend ==
    (/\ last.op = "append_to_file"
     /\ last.preOrigin = "create_file"
     /\ last.preBytes = <<>>)
        => (last.res = "ok" /\ Valid(bytes) /\ Content(bytes) = last.arg)

\* C9: on a non-empty valid file, write_string_file_gz succeeds with the
\* result it has from cursor 0, whatever the descriptor's cursor on entry
PatchAnyCursor ==
    (/\ last.op = "write_string_file_gz"
     /\ last.preBytes # <<>>
     /\ Valid(last.preBytes))
        => /\ last.res = "ok"
           /\ Valid(bytes)
           /\ Content(bytes) =
                Content(PatchResult(last.preBytes, 0, last.arg, last.pos).bytes)

\* C10: an append_to_file that fails reading the existing file leaves the
\* path as it was
FailedAppendKeepsFile ==
    (last.op = "append_to_file" /\ last.res = "err")
        => (exists = last.preExists /\ bytes = last.preBytes)

\* the append met a file holding a stream a live writer has only begun
FailedAppendOnPartial ==
    /\ last.op = "append_to_file"
    /\ last.res = "err"
    /\ last.preBytes # <<>>
    /\ bytes = last.preBytes

====
